---- MODULE Spec2Model ----
(***************************************************************************)
(* Model of the packed Score value of abstract-game (src/src/score.rs).    *)
(*                                                                         *)
(* A Score is one u32.  TLC integers are 32-bit signed, so a u32 is kept   *)
(* as a record [top, low]: top is bit 31, low is bits 0..30.  All bit      *)
(* operations below are exact on that representation.                      *)
(***************************************************************************)
EXTENDS Integers, Sequences, FiniteSets, TLC

\* ------------------------------------------------------------------ bounds
\* Depths 0..MaxDepth and MAX_WIN_DEPTH-TopSpan..MAX_WIN_DEPTH are explored.
MaxDepth == 3
TopSpan == 1
\* Nim starts with at most MaxSticks sticks, at most MaxObjects game objects
\* are alive, and a solver searches at most MaxSearch plies.
MaxSticks == 4
MaxObjects == 3
MaxSearch == 3

\* ------------------------------------------------------- u32 arithmetic
B(flag) == IF flag THEN 1 ELSE 0

U32(t, l) == [top |-> t, low |-> l]

W(n) == U32(0, n)

\* 2^31 - 1, the largest value of the low 31 bits.
LowMax == (2^30 - 1) + 2^30

\* Bitwise operations on naturals below 2^31.  A run of Chunk zero or one bits
\* of the second operand is consumed in one step, any other bit one at a time.
Chunk == 2^11

RECURSIVE BitAnd(_, _)
BitAnd(m, n) ==
  IF m = 0 \/ n = 0 THEN 0
  ELSE IF n % Chunk = 0 THEN Chunk * BitAnd(m \div Chunk, n \div Chunk)
  ELSE IF n % Chunk = Chunk - 1
    THEN (m % Chunk) + Chunk * BitAnd(m \div Chunk, n \div Chunk)
  ELSE (m % 2) * (n % 2) + 2 * BitAnd(m \div 2, n \div 2)

RECURSIVE BitOr(_, _)
BitOr(m, n) ==
  IF m = 0 THEN n
  ELSE IF n = 0 THEN m
  ELSE IF n % Chunk = 0
    THEN (m % Chunk) + Chunk * BitOr(m \div Chunk, n \div Chunk)
  ELSE (IF (m % 2) + (n % 2) > 0 THEN 1 ELSE 0) + 2 * BitOr(m \div 2, n \div 2)

RECURSIVE BitXor(_, _)
BitXor(m, n) ==
  IF m = 0 THEN n
  ELSE IF n = 0 THEN m
  ELSE IF n % Chunk = 0
    THEN (m % Chunk) + Chunk * BitXor(m \div Chunk, n \div Chunk)
  ELSE IF n % Chunk = Chunk - 1
    THEN ((Chunk - 1) - (m % Chunk)) + Chunk * BitXor(m \div Chunk, n \div Chunk)
  ELSE (((m % 2) + (n % 2)) % 2) + 2 * BitXor(m \div 2, n \div 2)

And(x, y) == U32(x.top * y.top, BitAnd(x.low, y.low))

Or(x, y) == U32(IF x.top + y.top > 0 THEN 1 ELSE 0, BitOr(x.low, y.low))

Xor(x, y) == U32((x.top + y.top) % 2, BitXor(x.low, y.low))

Not(x) == U32(1 - x.top, LowMax - x.low)

\* x << k on u32, 0 <= k <= 31
Shl(x, k) ==
  IF k = 0 THEN x
  ELSE U32((x.low \div 2^(31 - k)) % 2, ((x.low % 2^(31 - k)) * 2^(k - 1)) * 2)

\* x >> k on u32 (logical), 0 <= k <= 31
Shr(x, k) ==
  IF k = 0 THEN x
  ELSE U32(0, ((x.low \div 2^(k - 1)) \div 2) + x.top * 2^(31 - k))

\* (x as i32 >> k) as u32 (arithmetic), 1 <= k <= 31
AShr(x, k) ==
  U32(x.top, ((x.low \div 2^(k - 1)) \div 2) + x.top * ((2^k - 1) * 2^(31 - k)))

\* u32::wrapping_add
WrappingAdd(x, y) ==
  LET carry == IF x.low > LowMax - y.low THEN 1 ELSE 0
  IN  U32((x.top + y.top + carry) % 2,
          IF carry = 1 THEN x.low - (LowMax - y.low) - 1 ELSE x.low + y.low)

\* u32::wrapping_sub
WrappingSub(x, y) ==
  LET borrow == IF x.low < y.low THEN 1 ELSE 0
  IN  U32((2 + x.top - y.top - borrow) % 2,
          IF borrow = 1 THEN (LowMax - y.low) + x.low + 1 ELSE x.low - y.low)

\* x > y and x >= y on u32
Gt(x, y) == x.top > y.top \/ (x.top = y.top /\ x.low > y.low)

Geq(x, y) == x = y \/ Gt(x, y)

\* The number held by a u32 whose bit 31 is clear (every field value is).
Val(x) == x.low

\* ------------------------------------------------ Score layout constants
TIE_BITS == 11
TIE_SHIFT == 0
MAX_TIE_DEPTH == 2^TIE_BITS - 1
TIE_MASK == Shl(W(MAX_TIE_DEPTH), TIE_SHIFT)

WIN_BITS == 11
WIN_SHIFT == TIE_SHIFT + TIE_BITS
MAX_WIN_DEPTH == 2^WIN_BITS - 1
WIN_MASK == Shl(W(MAX_WIN_DEPTH), WIN_SHIFT)

UNUSED_BITS == 9
UNUSED_SHIFT == WIN_SHIFT + WIN_BITS

CUR_PLAYER_WINS_SHIFT == UNUSED_SHIFT + UNUSED_BITS
CUR_PLAYER_WINS_MASK == Shl(W(1), CUR_PLAYER_WINS_SHIFT)

\* ------------------------------------------------------ pack and unpack
pack(cpw, tct, tcw) ==
  WrappingAdd(WrappingAdd(Shl(W(B(cpw)), CUR_PLAYER_WINS_SHIFT),
                          Shl(W(tct), TIE_SHIFT)),
              Shl(W(tcw), WIN_SHIFT))

unpack_unshifted(data) ==
  <<And(data, CUR_PLAYER_WINS_MASK), And(data, TIE_MASK), And(data, WIN_MASK)>>

unpack(data) ==
  <<And(data, CUR_PLAYER_WINS_MASK) # W(0),
    Val(Shr(And(data, TIE_MASK), TIE_SHIFT)),
    Val(Shr(And(data, WIN_MASK), WIN_SHIFT))>>

\* ---------------------------------------------------------- constructors
\* The three debug assertions of Score::new.
new_accepts(cpw, tct, tcw) ==
  /\ tct <= MAX_TIE_DEPTH
  /\ tcw < MAX_WIN_DEPTH
  /\ (~cpw \/ tcw # 0)

\* Variant of new: the win depth is stored without the bias of one.
new_unbiased(cpw, tct, tcw) ==
  pack(cpw, tct, IF tcw = 0 THEN MAX_WIN_DEPTH ELSE tcw)

new(cpw, tct, tcw) ==
  pack(cpw, tct, IF tcw = 0 THEN MAX_WIN_DEPTH ELSE tcw - 1)

NO_INFO == new(FALSE, 0, 0)

ANCESTOR == CUR_PLAYER_WINS_MASK

win(n) == new(TRUE, 0, n)

optimal_win(n) == new(TRUE, n - 1, n)

lose(n) == new(FALSE, 0, n)

optimal_lose(n) == new(FALSE, n - 1, n)

tie(n) == new(FALSE, n, 0)

guaranteed_tie == tie(MAX_TIE_DEPTH)

\* ------------------------------------------------------------- accessors
has_no_info(s) == s = NO_INFO

is_tie(s) == And(s, WIN_MASK) = WIN_MASK

is_guaranteed_tie(s) == And(s, TIE_MASK) = TIE_MASK

is_ancestor(s) == s = ANCESTOR

cur_player_wins(s) == And(s, CUR_PLAYER_WINS_MASK) # W(0)

turn_count_tie(s) == Val(Shr(And(s, TIE_MASK), TIE_SHIFT))

\* The value turn_count_win computes (its debug assertion is ~is_tie(s)).
turn_count_win(s) ==
  Val(Shr(And(WrappingAdd(s, Shl(W(1), WIN_SHIFT)), WIN_MASK), WIN_SHIFT))

\* ------------------------------------------------------------ operations
\* The debug assertion of turn_count_win.
turn_count_win_assert(s) == ~is_tie(s)

\* score_at_depth under a build profile dbg (TRUE: debug assertions on).
\* "AssertFail" is a failed debug assertion; "Unreachable" is the
\* unreachable_unchecked() branch of a build without debug assertions.
score_at_depth(s, depth, dbg) ==
  IF depth <= turn_count_tie(s) THEN "Tie"
  ELSE IF dbg /\ ~turn_count_win_assert(s) THEN "AssertFail"
  ELSE IF depth >= turn_count_win(s)
       THEN (IF cur_player_wins(s) THEN "CurrentPlayerWins" ELSE "OtherPlayerWins")
  ELSE IF dbg THEN "AssertFail"
  ELSE "Unreachable"

\* The debug assertion of backstep.
backstep_assert(s) == is_tie(s) \/ turn_count_win(s) < MAX_WIN_DEPTH

\* Variant of backstep: the winner is not flipped.
backstep_no_flip(s) ==
  LET to_add ==
        WrappingAdd(
          IF ~is_tie(s) THEN Shl(W(1), WIN_SHIFT) ELSE W(0),
          IF ~is_guaranteed_tie(s) THEN Shl(W(1), TIE_SHIFT) ELSE W(0))
  IN  WrappingAdd(s, to_add)

\* Variant of backstep: the tie depth of a guaranteed tie is incremented too.
backstep_always_tie_increment(s) ==
  LET to_add ==
        WrappingAdd(
          IF ~is_tie(s) THEN Or(Shl(W(1), WIN_SHIFT), CUR_PLAYER_WINS_MASK) ELSE W(0),
          Shl(W(1), TIE_SHIFT))
  IN  WrappingAdd(s, to_add)

\* Variant of backstep: the decided depth is not incremented.
backstep_no_win_increment(s) ==
  LET to_add ==
        WrappingAdd(
          IF ~is_tie(s) THEN CUR_PLAYER_WINS_MASK ELSE W(0),
          IF ~is_guaranteed_tie(s) THEN Shl(W(1), TIE_SHIFT) ELSE W(0))
  IN  WrappingAdd(s, to_add)

backstep(s) ==
  LET to_add ==
        WrappingAdd(
          IF ~is_tie(s) THEN Or(Shl(W(1), WIN_SHIFT), CUR_PLAYER_WINS_MASK) ELSE W(0),
          IF ~is_guaranteed_tie(s) THEN Shl(W(1), TIE_SHIFT) ELSE W(0))
  IN  WrappingAdd(s, to_add)

\* Variant of forwardstep: the winner is not flipped.
forwardstep_no_flip(s) ==
  LET u == unpack_unshifted(s)
      deduct_winning_turns == ~is_tie(s) /\ u[3] # W(0)
      deduct_tied_turns == ~is_guaranteed_tie(s) /\ u[2] # W(0)
  IN  WrappingSub(s,
        WrappingAdd(
          IF deduct_winning_turns THEN Shl(W(1), WIN_SHIFT) ELSE W(0),
          IF deduct_tied_turns THEN Shl(W(1), TIE_SHIFT) ELSE W(0)))

\* Variant of forwardstep: a tie depth of zero is decremented too.
forwardstep_no_tie_floor(s) ==
  LET u == unpack_unshifted(s)
      swap_player_turn == ~is_tie(s)
      deduct_winning_turns == swap_player_turn /\ u[3] # W(0)
      deduct_tied_turns == ~is_guaranteed_tie(s)
  IN  WrappingSub(s,
        WrappingAdd(
          WrappingAdd(
            IF swap_player_turn THEN CUR_PLAYER_WINS_MASK ELSE W(0),
            IF deduct_winning_turns THEN Shl(W(1), WIN_SHIFT) ELSE W(0)),
          IF deduct_tied_turns THEN Shl(W(1), TIE_SHIFT) ELSE W(0)))

forwardstep(s) ==
  LET u == unpack_unshifted(s)
      tie_bits == u[2]
      win_bits == u[3]
      swap_player_turn == ~is_tie(s)
      deduct_winning_turns == swap_player_turn /\ win_bits # W(0)
      deduct_tied_turns == ~is_guaranteed_tie(s) /\ tie_bits # W(0)
  IN  WrappingSub(s,
        WrappingAdd(
          WrappingAdd(
            IF swap_player_turn THEN CUR_PLAYER_WINS_MASK ELSE W(0),
            IF deduct_winning_turns THEN Shl(W(1), WIN_SHIFT) ELSE W(0)),
          IF deduct_tied_turns THEN Shl(W(1), TIE_SHIFT) ELSE W(0)))

\* Variant of compatible: strict comparisons of the stored fields.
compatible_strict(s, other) ==
  LET tie_to_win_shift == WIN_SHIFT - TIE_SHIFT
      u1 == unpack_unshifted(s)
      u2 == unpack_unshifted(other)
      agree == is_tie(s) \/ is_tie(other) \/ u1[1] = u2[1]
  IN  /\ Gt(u1[3], Shl(u2[2], tie_to_win_shift))
      /\ Gt(u2[3], Shl(u1[2], tie_to_win_shift))
      /\ agree

\* Variant of compatible: only this score's win depth is compared.
compatible_one_sided(s, other) ==
  LET tie_to_win_shift == WIN_SHIFT - TIE_SHIFT
      u1 == unpack_unshifted(s)
      u2 == unpack_unshifted(other)
      agree == is_tie(s) \/ is_tie(other) \/ u1[1] = u2[1]
  IN  /\ Geq(u1[3], Shl(u2[2], tie_to_win_shift))
      /\ agree

compatible(s, other) ==
  LET tie_to_win_shift == WIN_SHIFT - TIE_SHIFT
      u1 == unpack_unshifted(s)
      u2 == unpack_unshifted(other)
      cur_player_wins1 == u1[1]
      tie1 == u1[2]
      win1 == u1[3]
      cur_player_wins2 == u2[1]
      tie2 == u2[2]
      win2 == u2[3]
      agree == is_tie(s) \/ is_tie(other) \/ cur_player_wins1 = cur_player_wins2
  IN  /\ Geq(win1, Shl(tie2, tie_to_win_shift))
      /\ Geq(win2, Shl(tie1, tie_to_win_shift))
      /\ agree

\* Variants of merge: the larger win depth, this score's winner flag only,
\* this score's tie depth only, the smaller tie depth.
merge_max_win(s, other) ==
  LET u1 == unpack_unshifted(s)
      u2 == unpack_unshifted(other)
      tie_ == IF Geq(u1[2], u2[2]) THEN u1[2] ELSE u2[2]
      win_ == IF Geq(u1[3], u2[3]) THEN u1[3] ELSE u2[3]
  IN  WrappingAdd(WrappingAdd(tie_, win_), Or(u1[1], u2[1]))

merge_self_winner(s, other) ==
  LET u1 == unpack_unshifted(s)
      u2 == unpack_unshifted(other)
      tie_ == IF Geq(u1[2], u2[2]) THEN u1[2] ELSE u2[2]
      win_ == IF Geq(u2[3], u1[3]) THEN u1[3] ELSE u2[3]
  IN  WrappingAdd(WrappingAdd(tie_, win_), u1[1])

merge_keep_tie(s, other) ==
  LET u1 == unpack_unshifted(s)
      u2 == unpack_unshifted(other)
      win_ == IF Geq(u2[3], u1[3]) THEN u1[3] ELSE u2[3]
  IN  WrappingAdd(WrappingAdd(u1[2], win_), Or(u1[1], u2[1]))

merge_min_tie(s, other) ==
  LET u1 == unpack_unshifted(s)
      u2 == unpack_unshifted(other)
      tie_ == IF Geq(u1[2], u2[2]) THEN u2[2] ELSE u1[2]
      win_ == IF Geq(u2[3], u1[3]) THEN u1[3] ELSE u2[3]
  IN  WrappingAdd(WrappingAdd(tie_, win_), Or(u1[1], u2[1]))

\* merge; its debug assertion is compatible(s, other).
merge(s, other) ==
  LET u1 == unpack_unshifted(s)
      u2 == unpack_unshifted(other)
      cur_player_wins1 == u1[1]
      tie1 == u1[2]
      win1 == u1[3]
      cur_player_wins2 == u2[1]
      tie2 == u2[2]
      win2 == u2[3]
      tie_ == IF Geq(tie1, tie2) THEN tie1 ELSE tie2
      win_ == IF Geq(win2, win1) THEN win1 ELSE win2
      cpw_ == Or(cur_player_wins1, cur_player_wins2)
  IN  WrappingAdd(WrappingAdd(tie_, win_), cpw_)

determined(s, search_depth) ==
  LET u == unpack(s)
      turn_count_tie_ == u[2]
      turn_count_win_ == u[3]
  IN  search_depth > turn_count_win_ \/ search_depth <= turn_count_tie_

\* Variant of transform_data: the win field of a win is not inverted.
transform_data_identity(data) == data

\* Variant of transform_data: the mask is OR-ed instead of XOR-ed.
transform_data_or(data) ==
  LET cpw_to_win_shift == CUR_PLAYER_WINS_SHIFT - WIN_SHIFT
      shifted_bits == AShr(data, cpw_to_win_shift)
      mask == And(shifted_bits, WIN_MASK)
  IN  Or(data, mask)

transform_data(data) ==
  LET cpw_to_win_shift == CUR_PLAYER_WINS_SHIFT - WIN_SHIFT
      shifted_bits == AShr(data, cpw_to_win_shift)
      mask == And(shifted_bits, WIN_MASK)
  IN  Xor(data, mask)

better(s, other) == Gt(transform_data(s), transform_data(other))

\* Variant of break_early: the win field is cleared together with the tie field.
break_early_clear_win(s) == And(s, Not(Or(TIE_MASK, WIN_MASK)))

break_early(s) == And(s, Not(TIE_MASK))

\* PartialEq for Score
eq(s, other) == s = other

\* Ord::cmp under a build profile dbg; "AssertFail" is a failed debug assertion.
cmp(s, other, dbg) ==
  IF better(s, other)
    THEN (IF dbg /\ better(other, s) THEN "AssertFail" ELSE "Greater")
  ELSE IF eq(s, other)
    THEN (IF dbg /\ better(other, s) THEN "AssertFail" ELSE "Equal")
  ELSE (IF dbg /\ ~better(other, s) THEN "AssertFail" ELSE "Less")

\* Variant of determined_depth: the smaller of the two depths.
determined_depth_min(s) ==
  LET u == unpack(WrappingAdd(s, Shl(W(1), WIN_SHIFT)))
  IN  IF u[2] <= u[3] THEN u[2] ELSE u[3]

determined_depth(s) ==
  LET u == unpack(WrappingAdd(s, Shl(W(1), WIN_SHIFT)))
  IN  IF u[2] >= u[3] THEN u[2] ELSE u[3]

\* Score::fully_determined: no depth between the tie depth and the decided
\* depth is left undetermined.
fully_determined(s) == turn_count_tie(s) + 1 >= turn_count_win(s)

\* ScoreValue::is_tied
is_tied(value) == value = "Tie"

\* ------------------------------------------------------- DeterminedScore
DeterminedScore(value, moves_to_win) ==
  [value |-> value, moves_to_win |-> moves_to_win]

ds_tie(depth) == DeterminedScore("Tie", depth)

ds_guaranteed_tie == DeterminedScore("Tie", 0)

ds_win(moves_to_win) == DeterminedScore("CurrentPlayerWins", moves_to_win)

ds_lose(moves_to_win) == DeterminedScore("OtherPlayerWins", moves_to_win)

\* Variant of truncated: a win or loss at exactly the depth is cut off too.
truncated_strict(r, depth) ==
  IF r.value = "Tie"
    THEN (IF r.moves_to_win = 0 THEN ds_tie(depth)
          ELSE ds_tie(IF r.moves_to_win <= depth THEN r.moves_to_win ELSE depth))
  ELSE (IF r.moves_to_win < depth THEN r ELSE ds_tie(depth))

truncated(r, depth) ==
  IF r.value = "Tie"
    THEN (IF r.moves_to_win = 0 THEN ds_tie(depth)
          ELSE ds_tie(IF r.moves_to_win <= depth THEN r.moves_to_win ELSE depth))
  ELSE (IF r.moves_to_win <= depth THEN r ELSE ds_tie(depth))

\* Option<DeterminedScore>; Panic is a failed debug assertion.
None == [tag |-> "None"]

Some(r) == [tag |-> "Some", v |-> r]

Panic == [tag |-> "Panic"]

from_score(s, dbg) ==
  IF eq(s, NO_INFO) THEN None
  ELSE IF is_guaranteed_tie(s) THEN Some(ds_guaranteed_tie)
  ELSE IF is_tie(s) THEN Some(ds_tie(determined_depth(s)))
  ELSE IF fully_determined(s)
    THEN LET depth == determined_depth(s)
             value == score_at_depth(s, depth, dbg)
         IN  IF value \in {"AssertFail", "Unreachable"} THEN Panic
             ELSE IF dbg /\ is_tied(value) THEN Panic
             ELSE Some(DeterminedScore(value, depth))
  ELSE None

\* ------------------------------------------------------------ Game: Nim
\* GamePlayer
Player1 == "Player1"

Player2 == "Player2"

opposite(p) == IF p = Player1 THEN Player2 ELSE Player1

\* GameResult
NotFinished == [tag |-> "NotFinished"]

Win(p) == [tag |-> "Win", player |-> p]

Tie == [tag |-> "Tie"]

is_finished(r) == r # NotFinished

MAX_STICKS_PER_TURN == 2

Nim(sticks, player1) == [sticks |-> sticks, player1 |-> player1]

Nim_new(sticks) == Nim(sticks, TRUE)

\* NimMoveIter::next: the advanced iterator and the move it yields, if any.
NimMoveIter_next(it, nim) ==
  IF it.sticks >=
       (IF MAX_STICKS_PER_TURN <= nim.sticks THEN MAX_STICKS_PER_TURN ELSE nim.sticks)
    THEN [iter |-> it, item |-> [tag |-> "None"]]
  ELSE [iter |-> [sticks |-> it.sticks + 1],
        item |-> [tag |-> "Some", v |-> it.sticks + 1]]

move_generator(g) == [sticks |-> 0]

RECURSIVE GameIterator_collect(_, _)
\* The moves a GameIterator yields until its first None, in order.
GameIterator_collect(it, g) ==
  LET r == NimMoveIter_next(it, g)
  IN  IF r.item.tag = "None" THEN <<>>
      ELSE <<r.item.v>> \o GameIterator_collect(r.iter, g)

\* each_move, as the sequence the iterator yields.
each_move(g) == GameIterator_collect(move_generator(g), g)

\* The legal moves of g.
Moves(g) == {each_move(g)[k] : k \in 1 .. Len(each_move(g))}

\* The debug assertion of Nim::make_move.
make_move_assert(g, sticks) == sticks <= g.sticks

\* Nim::make_move: the receiver after the call.
make_move(g, sticks) == Nim(g.sticks - sticks, ~g.player1)

current_player(g) == IF g.player1 THEN Player1 ELSE Player2

finished(g) ==
  IF g.sticks = 0 THEN Win(IF g.player1 THEN Player2 ELSE Player1)
  ELSE NotFinished

\* derive(Clone) for Nim: a field-by-field copy.
clone(g) == Nim(g.sticks, g.player1)

\* Variant of with_move: the move is made on the receiver, not on a copy.
with_move_in_place(g, m) ==
  [self |-> make_move(g, m), out |-> make_move(g, m)]

\* Game::with_move: the receiver after the call (self) and the returned
\* game (out).
with_move(g, m) ==
  LET copy == clone(g)
  IN  [self |-> g, out |-> make_move(copy, m)]

\* ------------------------------------------------------------------ Solver
\* Solver::best_move of any solver that returns a move iff the game is
\* unfinished: the moves it may return.
best_move(g) ==
  IF is_finished(finished(g)) THEN {None}
  ELSE {Some(m) : m \in Moves(g)}

\* The best of a non-empty set of scores under Score::better.
best_score(vals) == CHOOSE v \in vals : \A w \in vals : v = w \/ better(v, w)

RECURSIVE complete_score(_, _)
\* The score a complete solver gives the unfinished game g for making move m
\* with depth plies to search.
move_score(g, m, depth) ==
  LET child == with_move(g, m).out
  IN  IF finished(child) = Win(current_player(g)) THEN win(1)
      ELSE IF finished(child) = Win(opposite(current_player(g))) THEN lose(1)
      ELSE IF finished(child) = Tie THEN guaranteed_tie
      ELSE backstep(complete_score(child, depth - 1))

\* The score a complete solver gives the unfinished game g at depth: an
\* exhaustive minimax over depth plies.
complete_score(g, depth) ==
  IF depth = 0 THEN NO_INFO
  ELSE best_score({move_score(g, m, depth) : m \in Moves(g)})

\* Solver::best_move of a complete solver; finished_score is what it reports
\* for a game that is already finished.
complete_best_move(g, depth, finished_score) ==
  IF is_finished(finished(g)) THEN [score |-> finished_score, m |-> None]
  ELSE [score |-> complete_score(g, depth),
        m |-> Some(CHOOSE m \in Moves(g) :
                     depth = 0 \/ move_score(g, m, depth) = complete_score(g, depth))]

\* Variant of move_loss: the score of the move is not stepped back to the
\* position before the move.
move_loss_no_backstep(m, game, depth, finished_score, dbg) ==
  IF dbg /\ is_finished(finished(game)) THEN "AssertFail"
  ELSE
    LET cur_score == complete_best_move(game, depth, finished_score).score
        move_score_ ==
          complete_best_move(with_move(game, m).out, depth - 1, finished_score).score
    IN  IF compatible(cur_score, move_score_) THEN "Equivalent"
        ELSE IF dbg /\ ~better(cur_score, move_score_) THEN "AssertFail"
        ELSE "Worse"

\* Solver::move_loss with a complete solver, for depth >= 1; "AssertFail" is
\* a failed debug assertion.
move_loss(m, game, depth, finished_score, dbg) ==
  IF dbg /\ is_finished(finished(game)) THEN "AssertFail"
  ELSE
    LET cur_score == complete_best_move(game, depth, finished_score).score
        move_score_ ==
          complete_best_move(with_move(game, m).out, depth - 1, finished_score).score
    IN  IF dbg /\ ~backstep_assert(move_score_) THEN "AssertFail"
        ELSE IF compatible(cur_score, backstep(move_score_)) THEN "Equivalent"
        ELSE IF dbg /\ ~better(cur_score, backstep(move_score_)) THEN "AssertFail"
        ELSE "Worse"

\* Variant of playout_first: the first state is the game before the move.
playout_first_unmoved(game, m) ==
  IF m = None THEN None ELSE Some([game |-> game, m |-> m.v])

\* Solver::playout: the first item of the successors iterator, from the
\* move m that best_move returned for game.
playout_first(game, m) ==
  IF m = None THEN None
  ELSE Some([game |-> with_move(game, m.v).out, m |-> m.v])

\* Solver::playout: the successor of item; m is the move best_move returns
\* for the item's game, asked for only when that game is not finished.
playout_succ(item, m) ==
  IF finished(item.game).tag \in {"Win", "Tie"} THEN None
  ELSE IF m = None THEN None
  ELSE Some([game |-> with_move(item.game, m.v).out, m |-> m.v])

\* ----------------------------------------------------------- TermInterface
\* MakeMoveControl
Done(m) == [tag |-> "Done", m |-> m]

Continue == [tag |-> "Continue"]

\* GameInterfaceError
Quit == [tag |-> "Err", err |-> "Quit"]

MalformedMove == [tag |-> "Err", err |-> "MalformedMove"]

IoError == [tag |-> "Err", err |-> "IoError"]

InternalError == [tag |-> "Err", err |-> "InternalError"]

\* What play() has returned: nothing yet, Ok(()), or the panic of its
\* unreachable!() branch; an Err is the GameInterfaceError itself.
Running == [tag |-> "Running"]

Ok == [tag |-> "Ok"]

Unreachable == [tag |-> "Unreachable"]

\* What Player::make_move may return for game g: a legal move, Continue, or
\* an error.
PlayerResults(g) ==
  {Done(m) : m \in Moves(g)} \cup
    {Continue, Quit, MalformedMove, IoError, InternalError}

\* TermInterface::next_move, one turn of its loop on the player's result:
\* "break" with the value next_move returns, or "loop" to ask again.
\* println_ok is whether writing the error message succeeds.
next_move(move_result, println_ok) ==
  IF move_result.tag # "Err" THEN [ctl |-> "break", value |-> move_result]
  ELSE IF move_result \in {Quit, IoError} THEN [ctl |-> "break", value |-> move_result]
  ELSE IF ~println_ok THEN [ctl |-> "break", value |-> IoError]
  ELSE [ctl |-> "loop"]

\* Variant of play_loop_cond: the negation is missing.
play_loop_cond_inverted(game) == is_finished(finished(game))

\* TermInterface::play, the condition of its while loop.
play_loop_cond(game) == ~is_finished(finished(game))

\* TermInterface::play, the match on the value next_move returned.
play_apply(game, next) ==
  IF next.tag = "Done" THEN make_move(game, next.m) ELSE game

\* ---------------------------------------------------------- state machine
\* score: the Score values held by a caller (two of them, so that the binary
\*        operations have operands);
\* last:  the most recent call, its operands and its result;
\* debug_assertions: whether the build compiles debug_assert!.
\* heap:  the Game objects alive, by handle;
\* playout: the iterator Solver::playout returned, if any;
\* term:  the TermInterface being played, if any.
VARIABLES score, last, debug_assertions, heap, playout, term

vars == <<score, last, debug_assertions, heap, playout, term>>

Objs == 1 .. MaxObjects

\* A handle that holds no object.
Free == [tag |-> "Free"]

\* No iterator, no interface.
Idle == [tag |-> "Idle"]

\* No game is in play.
NoGame ==
  /\ heap = [h \in Objs |-> Free]
  /\ playout = Idle
  /\ term = Idle

Regs == {1, 2}

Depths == (0 .. MaxDepth) \cup ((MAX_WIN_DEPTH - TopSpan) .. MAX_WIN_DEPTH)

\* Both depth fields of s lie in the explored depths.
InBounds(s) ==
  /\ turn_count_tie(s) \in Depths
  /\ (is_tie(s) \/ turn_count_win(s) \in Depths)

\* Arguments the constructors accept: win/lose/optimal_* assert n != 0 and
\* Score::new asserts n < MAX_WIN_DEPTH.
WinArgs == {n \in Depths : n # 0 /\ n < MAX_WIN_DEPTH}

Constructed ==
  {sc \in {win(n) : n \in WinArgs} \cup {optimal_win(n) : n \in WinArgs}
          \cup {lose(n) : n \in WinArgs} \cup {optimal_lose(n) : n \in WinArgs}
          \cup {tie(n) : n \in Depths} \cup {guaranteed_tie, NO_INFO} :
     InBounds(sc)}

\* The caller starts with one score built by Score::new (the call is recorded
\* in last) and one built by a public constructor.
Init ==
  /\ \E cpw \in BOOLEAN, tct \in Depths, tcw \in Depths :
       /\ new_accepts(cpw, tct, tcw)
       /\ (tct < tcw \/ tcw = 0)
       /\ \E other \in Constructed :
            score = [i \in Regs |-> IF i = 1 THEN new(cpw, tct, tcw) ELSE other]
       /\ last = [op |-> "new", cpw |-> cpw, tct |-> tct, tcw |-> tcw,
                  out |-> new(cpw, tct, tcw)]
  /\ debug_assertions \in BOOLEAN
  /\ NoGame

Backstep(i) ==
  /\ backstep_assert(score[i])
  /\ InBounds(backstep(score[i]))
  /\ score' = [score EXCEPT ![i] = backstep(score[i])]
  /\ last' = [op |-> "backstep", x |-> score[i], out |-> backstep(score[i])]
  /\ UNCHANGED <<debug_assertions, heap, playout, term>>

Forwardstep(i) ==
  /\ InBounds(forwardstep(score[i]))
  /\ score' = [score EXCEPT ![i] = forwardstep(score[i])]
  /\ last' = [op |-> "forwardstep", x |-> score[i], out |-> forwardstep(score[i])]
  /\ UNCHANGED <<debug_assertions, heap, playout, term>>

BreakEarly(i) ==
  /\ score' = [score EXCEPT ![i] = break_early(score[i])]
  /\ last' = [op |-> "break_early", x |-> score[i], out |-> break_early(score[i])]
  /\ UNCHANGED <<debug_assertions, heap, playout, term>>

Merge(i, j) ==
  /\ compatible(score[i], score[j])
  /\ score' = [score EXCEPT ![i] = merge(score[i], score[j])]
  /\ last' = [op |-> "merge", x |-> score[i], y |-> score[j],
              out |-> merge(score[i], score[j])]
  /\ UNCHANGED <<debug_assertions, heap, playout, term>>

Compatible(i, j) ==
  /\ last' = [op |-> "compatible", x |-> score[i], y |-> score[j],
              out |-> compatible(score[i], score[j])]
  /\ UNCHANGED <<score, debug_assertions, heap, playout, term>>

Better(i, j) ==
  /\ last' = [op |-> "better", x |-> score[i], y |-> score[j],
              out |-> better(score[i], score[j])]
  /\ UNCHANGED <<score, debug_assertions, heap, playout, term>>

Cmp(i, j) ==
  /\ last' = [op |-> "cmp", x |-> score[i], y |-> score[j],
              out |-> cmp(score[i], score[j], debug_assertions)]
  /\ UNCHANGED <<score, debug_assertions, heap, playout, term>>

IsAncestor(i) ==
  /\ last' = [op |-> "is_ancestor", x |-> score[i], out |-> is_ancestor(score[i])]
  /\ UNCHANGED <<score, debug_assertions, heap, playout, term>>

Next ==
  \/ \E i \in Regs : Backstep(i)
  \/ \E i \in Regs : Forwardstep(i)
  \/ \E i \in Regs : BreakEarly(i)
  \/ \E i \in Regs : \E j \in Regs \ {i} : Merge(i, j)
  \/ \E i \in Regs : \E j \in Regs \ {i} : Compatible(i, j)
  \/ \E i \in Regs : \E j \in Regs \ {i} : Better(i, j)
  \/ \E i \in Regs : \E j \in Regs \ {i} : Cmp(i, j)
  \/ \E i \in Regs : IsAncestor(i)

Spec == Init /\ [][Next]_vars

\* ------------------------------------------------- vocabulary of the claims
\* The Score invariant: a decided score has its tie depth below its win depth.
ScoreInvariant(s) == is_tie(s) \/ turn_count_tie(s) < turn_count_win(s)

\* A depth larger than every representable depth.
Infinity == MAX_WIN_DEPTH + 1

\* The decided depth of s, infinity for a tie-only score.
WinOrInf(s) == IF is_tie(s) THEN Infinity ELSE turn_count_win(s)

\* s with the winner of a decided score flipped.
FlipWinner(s) == IF is_tie(s) THEN s ELSE Xor(s, CUR_PLAYER_WINS_MASK)

Max(m, n) == IF m >= n THEN m ELSE n

Min(m, n) == IF m <= n THEN m ELSE n

\* Search depths: the explored depths and the depths next to them.
DepthArgs ==
  (0 .. (MaxDepth + 1)) \cup ((MAX_WIN_DEPTH - TopSpan - 1) .. MAX_WIN_DEPTH)

\* Every score Score::new builds from an explored triple of the Score invariant.
NewScores ==
  {new(cpw, tct, tcw) : <<cpw, tct, tcw>> \in
     {t \in BOOLEAN \X Depths \X Depths :
        new_accepts(t[1], t[2], t[3]) /\ (t[2] < t[3] \/ t[3] = 0)}}

ScoreValues == {"Tie", "CurrentPlayerWins", "OtherPlayerWins"}

\* ------------------------------------------- depth queries and reports
\* A second caller: it holds one score (score[Subject]), asks what the score
\* says at a search depth, turns it into a DeterminedScore and truncates the
\* report.  The report is kept in last.out.
Subject == 1

\* Search depths a caller passes: the depths next to the explored field
\* values and one depth beyond the widest field.
SearchDepths == DepthArgs \cup {MAX_WIN_DEPTH + 1}

\* Distances of the reports built by the DeterminedScore constructors.
ReportDepths == 0 .. (MaxDepth + 1)

ReportsConstructed ==
  {ds_tie(n) : n \in ReportDepths} \cup {ds_win(n) : n \in ReportDepths}
    \cup {ds_lose(n) : n \in ReportDepths} \cup {ds_guaranteed_tie}

InitReport ==
  /\ \E sc \in NewScores :
       score = [i \in Regs |-> IF i = Subject THEN sc ELSE NO_INFO]
  /\ last = [op |-> "init"]
  /\ debug_assertions \in BOOLEAN
  /\ NoGame

Determined(i, d) ==
  /\ last' = [op |-> "determined", x |-> score[i], d |-> d,
              out |-> determined(score[i], d)]
  /\ UNCHANGED <<score, debug_assertions, heap, playout, term>>

\* The caller keeps the contract of score_at_depth: the depth is determined.
ScoreAtDepth(i, d) ==
  /\ determined(score[i], d)
  /\ last' = [op |-> "score_at_depth", x |-> score[i], d |-> d,
              out |-> score_at_depth(score[i], d, debug_assertions)]
  /\ UNCHANGED <<score, debug_assertions, heap, playout, term>>

FromScore(i) ==
  /\ last' = [op |-> "from_score", x |-> score[i],
              out |-> from_score(score[i], debug_assertions)]
  /\ UNCHANGED <<score, debug_assertions, heap, playout, term>>

Report(r) ==
  /\ last' = [op |-> "report", out |-> Some(r)]
  /\ UNCHANGED <<score, debug_assertions, heap, playout, term>>

Truncated(d) ==
  /\ last.op \in {"from_score", "report", "truncated"}
  /\ last.out.tag = "Some"
  /\ last' = [op |-> "truncated", r |-> last.out.v, d |-> d,
              out |-> Some(truncated(last.out.v, d))]
  /\ UNCHANGED <<score, debug_assertions, heap, playout, term>>

NextReport ==
  \/ Backstep(Subject)
  \/ Forwardstep(Subject)
  \/ BreakEarly(Subject)
  \/ \E d \in SearchDepths : Determined(Subject, d)
  \/ \E d \in SearchDepths : ScoreAtDepth(Subject, d)
  \/ FromScore(Subject)
  \/ \E r \in ReportsConstructed : Report(r)
  \/ \E d \in SearchDepths : Truncated(d)

SpecReport == InitReport /\ [][NextReport]_vars

\* ------------------------- three results produced for one position

Operands == {1, 2, 3}

\* Three results for one position, each built by Score::new: they do not
\* contradict one another.  merge's debug assertion is compiled in.
InitMerge ==
  /\ score \in {f \in [Operands -> NewScores] :
                  \A i \in Operands : \A j \in Operands \ {i} :
                    compatible(f[i], f[j])}
  /\ last = [op |-> "init"]
  /\ debug_assertions = TRUE
  /\ NoGame

NextMerge ==
  \E i \in Operands : \E j \in Operands \ {i} : Merge(i, j)

SpecMerge == InitMerge /\ [][NextMerge]_vars

\* ------------------------------------------------ games and their solvers
\* What a complete solver may report for a finished game.
FinishedScores == {NO_INFO, lose(1)}

SearchPlies == 1 .. MaxSearch

\* One game built by Nim::new.
InitGame ==
  /\ \E n \in 0 .. MaxSticks :
       heap = [h \in Objs |-> IF h = 1 THEN Nim_new(n) ELSE Free]
  /\ playout = Idle
  /\ term = Idle
  /\ score = [i \in Regs |-> NO_INFO]
  /\ last = [op |-> "init"]
  /\ debug_assertions \in BOOLEAN

\* let copy = heap[h].with_move(m), for a legal move m.
WithMove(h, m) ==
  /\ heap[h] # Free
  /\ m \in Moves(heap[h])
  /\ \E fresh \in Objs :
       /\ heap[fresh] = Free
       /\ \A o \in Objs : heap[o] = Free => fresh <= o
       /\ heap' = [heap EXCEPT ![h] = with_move(heap[h], m).self,
                               ![fresh] = with_move(heap[h], m).out]
       /\ last' = [op |-> "with_move", self |-> h, m |-> m, out |-> fresh]
  /\ UNCHANGED <<score, debug_assertions, playout, term>>

\* heap[h].make_move(m), for a legal move m.
MakeMove(h, m) ==
  /\ heap[h] # Free
  /\ m \in Moves(heap[h])
  /\ make_move_assert(heap[h], m)
  /\ heap' = [heap EXCEPT ![h] = make_move(heap[h], m)]
  /\ last' = [op |-> "make_move", self |-> h, m |-> m]
  /\ UNCHANGED <<score, debug_assertions, playout, term>>

\* solver.move_loss(m, &heap[h], depth) with a complete solver.
MoveLoss(h, m, depth, finished_score) ==
  /\ heap[h] # Free
  /\ m \in Moves(heap[h])
  /\ last' = [op |-> "move_loss", m |-> m, game |-> heap[h], depth |-> depth,
              finished_score |-> finished_score,
              out |-> move_loss(m, heap[h], depth, finished_score, debug_assertions)]
  /\ UNCHANGED <<score, debug_assertions, heap, playout, term>>

\* solver.playout(&heap[h], depth): best_move is asked once and the iterator
\* is built.
PlayoutStart(h) ==
  /\ heap[h] # Free
  /\ \E m \in best_move(heap[h]) :
       playout' = [game |-> heap[h], next |-> playout_first(heap[h], m),
                   yielded |-> <<>>, done |-> FALSE]
  /\ last' = [op |-> "playout"]
  /\ UNCHANGED <<score, debug_assertions, heap, term>>

\* Iterator::next on the successors iterator: the pending item is yielded and
\* its successor computed, or the iterator ends.
PlayoutNext ==
  /\ playout # Idle
  /\ ~playout.done
  /\ IF playout.next = None
       THEN playout' = [playout EXCEPT !.done = TRUE]
     ELSE \E m \in best_move(playout.next.v.game) :
            playout' = [playout EXCEPT
                          !.yielded = Append(@, playout.next.v),
                          !.next = playout_succ(playout.next.v, m)]
  /\ last' = [op |-> "next"]
  /\ UNCHANGED <<score, debug_assertions, heap, term>>

NextGame ==
  \/ \E h \in Objs : \E m \in 1 .. MAX_STICKS_PER_TURN : WithMove(h, m)
  \/ \E h \in Objs : \E m \in 1 .. MAX_STICKS_PER_TURN : MakeMove(h, m)

SpecGame == InitGame /\ [][NextGame]_vars

\* One game, reached from Nim::new by legal moves, handed to a solver.
InitSolver ==
  /\ \E n \in 0 .. MaxSticks : \E p \in BOOLEAN :
       heap = [h \in Objs |-> IF h = 1 THEN Nim(n, p) ELSE Free]
  /\ playout = Idle
  /\ term = Idle
  /\ score = [i \in Regs |-> NO_INFO]
  /\ last = [op |-> "init"]
  /\ debug_assertions \in BOOLEAN

NextSolver ==
  \/ \E m \in 1 .. MAX_STICKS_PER_TURN : \E depth \in SearchPlies :
       \E fs \in FinishedScores : MoveLoss(1, m, depth, fs)
  \/ PlayoutStart(1)
  \/ PlayoutNext

SpecSolver == InitSolver /\ [][NextSolver]_vars

\* ------------------------------------------------- TermInterface::play
\* term.game: the interface's game; term.pc: where play() is; term.pending:
\* the value next_move returned; term.prev: the previous prompt (its game,
\* the player asked and the answer); term.result: what play() returned.
InitPlay ==
  /\ heap = [h \in Objs |-> Free]
  /\ playout = Idle
  /\ \E n \in 0 .. MaxSticks : \E p \in BOOLEAN :
       term = [game |-> Nim(n, p), pc |-> "loop", pending |-> None,
               prev |-> None, result |-> Running]
  /\ score = [i \in Regs |-> NO_INFO]
  /\ last = [op |-> "init"]
  /\ debug_assertions \in BOOLEAN

\* The head of the while loop: the game and the prompt are printed.
PlayLoop(io_ok) ==
  /\ term # Idle
  /\ term.pc = "loop"
  /\ term' = IF ~play_loop_cond(term.game) THEN [term EXCEPT !.pc = "announce"]
             ELSE IF io_ok THEN [term EXCEPT !.pc = "next_move"]
             ELSE [term EXCEPT !.pc = "done", !.result = IoError]
  /\ last' = [op |-> "play_loop"]
  /\ UNCHANGED <<score, debug_assertions, heap, playout>>

\* next_move: the player whose turn it is answers.
PlayerMove(r, io_ok) ==
  /\ term # Idle
  /\ term.pc = "next_move"
  /\ r \in PlayerResults(term.game)
  /\ LET by == current_player(term.game)
         asked == Some([game |-> term.game, by |-> by, answer |-> r])
         n == next_move(r, io_ok)
     IN  /\ term' = IF n.ctl = "loop" THEN [term EXCEPT !.prev = asked]
                    ELSE IF n.value.tag = "Err"
                      THEN [term EXCEPT !.prev = asked, !.pc = "done",
                                        !.result = n.value]
                    ELSE [term EXCEPT !.prev = asked, !.pc = "clear",
                                      !.pending = Some(n.value)]
         /\ last' = [op |-> "player_move", by |-> by, answer |-> r]
  /\ UNCHANGED <<score, debug_assertions, heap, playout>>

\* The screen is cleared and the value next_move returned is interpreted.
PlayClear(io_ok) ==
  /\ term # Idle
  /\ term.pc = "clear"
  /\ term' = IF ~io_ok THEN [term EXCEPT !.pc = "done", !.result = IoError]
             ELSE [term EXCEPT !.game = play_apply(term.game, term.pending.v),
                               !.pc = "loop", !.pending = None]
  /\ last' = [op |-> "play_clear"]
  /\ UNCHANGED <<score, debug_assertions, heap, playout>>

\* After the loop: the final game and the result are printed and the user
\* presses enter.
PlayAnnounce(io_ok) ==
  /\ term # Idle
  /\ term.pc = "announce"
  /\ term' = IF ~io_ok THEN [term EXCEPT !.pc = "done", !.result = IoError]
             ELSE IF finished(term.game) = NotFinished
               THEN [term EXCEPT !.pc = "done", !.result = Unreachable]
             ELSE [term EXCEPT !.pc = "done", !.result = Ok]
  /\ last' = [op |-> "play_announce"]
  /\ UNCHANGED <<score, debug_assertions, heap, playout>>

NextPlay ==
  \/ \E io_ok \in BOOLEAN : PlayLoop(io_ok)
  \/ \E io_ok \in BOOLEAN :
       \E r \in {Done(m) : m \in 1 .. MAX_STICKS_PER_TURN} \cup
                  {Continue, Quit, MalformedMove, IoError, InternalError} :
         PlayerMove(r, io_ok)
  \/ \E io_ok \in BOOLEAN : PlayClear(io_ok)
  \/ \E io_ok \in BOOLEAN : PlayAnnounce(io_ok)

SpecPlay == InitPlay /\ [][NextPlay]_vars

\* ------------------------------------------------------------------ claims

\* C1: every score reachable from the constructors by backstep (within its
\* precondition), forwardstep, break_early and merge of compatible operands
\* has turn_count_tie < turn_count_win whenever it is decided.
C1_TieBelowWin == \A i \in Regs : ScoreInvariant(score[i])

C1_Witness ==
  /\ last.op = "merge"
  /\ ~is_tie(last.out)
  /\ turn_count_tie(last.out) + 1 = turn_count_win(last.out)
  /\ last.out # last.x
  /\ last.out # last.y

\* C2 (as claimed): is_ancestor() is false for every score produced by the
\* constructors, backstep, forwardstep, merge and break_early.
C2_NeverAncestor == last.op = "is_ancestor" => last.out = FALSE

\* C3 (as claimed): new(cpw, tie, win) followed by cur_player_wins(),
\* turn_count_tie() and turn_count_win() returns the three inputs, win = 0 read
\* back as 0, and is_tie() holds exactly when win = 0.
C3_RoundTripAsClaimed ==
  last.op = "new" =>
    /\ cur_player_wins(last.out) = last.cpw
    /\ turn_count_tie(last.out) = last.tct
    /\ (debug_assertions => turn_count_win_assert(last.out))
    /\ turn_count_win(last.out) = last.tcw
    /\ is_tie(last.out) = (last.tcw = 0)

\* C3 (amended): cur_player_wins() and turn_count_tie() return the inputs and
\* is_tie() holds exactly when win = 0; turn_count_win() returns win when
\* win # 0; when win = 0 it fails its debug assertion where debug assertions
\* are compiled in and returns 0 where they are not.
C3_RoundTrip ==
  last.op = "new" =>
    /\ cur_player_wins(last.out) = last.cpw
    /\ turn_count_tie(last.out) = last.tct
    /\ is_tie(last.out) = (last.tcw = 0)
    /\ (last.tcw # 0 =>
          turn_count_win_assert(last.out) /\ turn_count_win(last.out) = last.tcw)
    /\ (last.tcw = 0 =>
          /\ ~turn_count_win_assert(last.out)
          /\ (~debug_assertions => turn_count_win(last.out) = 0))

C3_Witness ==
  /\ last.op = "new"
  /\ last.cpw
  /\ last.tct > 0
  /\ last.tcw = MAX_WIN_DEPTH - 1

\* C4: a.compatible(b) holds iff w1 > t2 and w2 > t1 (w infinite for a tie-only
\* score) and, when both are decided, they name the same winner.
C4_CompatibleIff ==
  last.op = "compatible" =>
    last.out =
      (/\ WinOrInf(last.x) > turn_count_tie(last.y)
       /\ WinOrInf(last.y) > turn_count_tie(last.x)
       /\ ((~is_tie(last.x) /\ ~is_tie(last.y)) =>
             cur_player_wins(last.x) = cur_player_wins(last.y)))

C4_Witness ==
  /\ last.op = "compatible"
  /\ ~last.out
  /\ ~is_tie(last.x)
  /\ ~is_tie(last.y)
  /\ cur_player_wins(last.x) = cur_player_wins(last.y)
  /\ turn_count_win(last.x) = turn_count_tie(last.y)

\* C5: compatible is symmetric, and its answer is unchanged when the winner of
\* every decided operand is flipped in both scores at once.
C5_CompatibleSymmetric ==
  last.op = "compatible" =>
    /\ last.out = compatible(last.y, last.x)
    /\ last.out = compatible(FlipWinner(last.x), FlipWinner(last.y))
    /\ last.out = compatible(FlipWinner(last.y), FlipWinner(last.x))

C5_Witness ==
  /\ last.op = "compatible"
  /\ last.out
  /\ ~is_tie(last.x)
  /\ is_tie(last.y)
  /\ turn_count_tie(last.y) > turn_count_tie(last.x)

\* C6: for compatible a and b, a.merge(b) has tie depth max(t1, t2), decided
\* depth min(w1, w2) with an undecided operand counted as infinity, and
\* cur_player_wins the OR of the two flags; merge(win(10), tie(5)) is
\* new(true, 5, 10).
C6_MergeFields ==
  /\ merge(win(10), tie(5)) = new(TRUE, 5, 10)
  /\ last.op = "merge" =>
       /\ turn_count_tie(last.out) =
            Max(turn_count_tie(last.x), turn_count_tie(last.y))
       /\ WinOrInf(last.out) = Min(WinOrInf(last.x), WinOrInf(last.y))
       /\ is_tie(last.out) = (is_tie(last.x) /\ is_tie(last.y))
       /\ cur_player_wins(last.out) =
            (cur_player_wins(last.x) \/ cur_player_wins(last.y))

C6_Witness ==
  /\ last.op = "merge"
  /\ last.x = win(3)
  /\ last.y = tie(2)
  /\ last.out = new(TRUE, 2, 3)

\* C7: merge is commutative on compatible scores.
C7_MergeCommutative ==
  last.op = "merge" => last.out = merge(last.y, last.x)

C7_Witness ==
  /\ last.op = "merge"
  /\ is_tie(last.x)
  /\ turn_count_tie(last.x) > 0
  /\ ~is_tie(last.y)
  /\ cur_player_wins(last.y)

\* C8: no_info is compatible with every score of the Score invariant and is
\* the identity of merge on both sides.
C8_NoInfoIdentity ==
  /\ (last.op = "compatible" /\ (last.x = NO_INFO \/ last.y = NO_INFO)) => last.out
  /\ (last.op = "merge" /\ last.y = NO_INFO) => last.out = last.x
  /\ (last.op = "merge" /\ last.x = NO_INFO) => last.out = last.y

C8_Witness ==
  /\ last.op = "merge"
  /\ last.x = NO_INFO
  /\ ~is_tie(last.y)
  /\ turn_count_tie(last.y) > 0

\* C9: for compatible a and b and every depth d, if a (or b) is determined at
\* d then so is a.merge(b), with the same score at depth d.
C9_MergeNoLessInformative ==
  last.op = "merge" =>
    \A d \in DepthArgs : \A operand \in {last.x, last.y} :
      determined(operand, d) =>
        /\ determined(last.out, d)
        /\ score_at_depth(operand, d, debug_assertions) \in ScoreValues
        /\ score_at_depth(last.out, d, debug_assertions) =
             score_at_depth(operand, d, debug_assertions)

C9_Witness ==
  /\ last.op = "merge"
  /\ ~is_tie(last.x)
  /\ ~is_tie(last.y)
  /\ turn_count_win(last.x) > turn_count_win(last.y)
  /\ turn_count_tie(last.x) > turn_count_tie(last.y)

\* C10: better is a strict total order consistent with equality of the packed
\* value (irreflexive, transitive, exactly one of a.better(b), a == b,
\* b.better(a)), so the debug assertions of Ord::cmp never fail.
C10_BetterStrictTotalOrder ==
  /\ last.op = "better" =>
       /\ ~better(last.x, last.x)
       /\ (last.x = last.y) => (~last.out /\ ~better(last.y, last.x))
       /\ (last.x # last.y) => (last.out # better(last.y, last.x))
       /\ \A c \in NewScores :
            (last.out /\ better(last.y, c)) => better(last.x, c)
  /\ last.op = "cmp" =>
       /\ last.out # "AssertFail"
       /\ (last.out = "Equal") = (last.x = last.y)
       /\ (last.out = "Greater") = better(last.x, last.y)

C10_Witness ==
  /\ last.op = "cmp"
  /\ debug_assertions
  /\ last.out = "Less"
  /\ cur_player_wins(last.x)
  /\ cur_player_wins(last.y)
  /\ turn_count_win(last.x) = turn_count_win(last.y)

\* The three outcomes a score names: 2 a win, 1 tie-only, 0 a loss.
Outcome(s) == IF is_tie(s) THEN 1 ELSE IF cur_player_wins(s) THEN 2 ELSE 0

\* The stated preference between two scores of the Score invariant.
Preferred(s, other) ==
  \/ Outcome(s) > Outcome(other)
  \/ /\ Outcome(s) = Outcome(other)
     /\ Outcome(s) = 2
     /\ \/ turn_count_win(s) < turn_count_win(other)
        \/ /\ turn_count_win(s) = turn_count_win(other)
           /\ turn_count_tie(s) > turn_count_tie(other)
  \/ /\ Outcome(s) = Outcome(other)
     /\ Outcome(s) = 0
     /\ \/ turn_count_win(s) > turn_count_win(other)
        \/ /\ turn_count_win(s) = turn_count_win(other)
           /\ turn_count_tie(s) > turn_count_tie(other)
  \/ /\ Outcome(s) = Outcome(other)
     /\ Outcome(s) = 1
     /\ turn_count_tie(s) > turn_count_tie(other)

\* no_info, ancestor and guaranteed_tie.
Sentinel(s) == has_no_info(s) \/ is_ancestor(s) \/ is_guaranteed_tie(s)

\* The bits of the unused field are clear.
UnusedClear(s) == s.low < 2^UNUSED_SHIFT

\* C11: for scores of the Score invariant, a.better(b) follows the stated
\* preference: a win beats a tie-only score, which beats a loss; the smaller
\* win depth, the larger loss depth, the larger tie depth is better; with
\* equal outcome and decided depth the larger tie depth is better.
C11_BetterPreference ==
  (last.op = "better" /\ ScoreInvariant(last.x) /\ ScoreInvariant(last.y)) =>
    last.out = Preferred(last.x, last.y)

C11_Witness ==
  /\ last.op = "better"
  /\ last.out
  /\ Outcome(last.x) = 2
  /\ Outcome(last.y) = 2
  /\ turn_count_win(last.x) = turn_count_win(last.y)
  /\ turn_count_tie(last.x) > turn_count_tie(last.y)

\* C12 (as claimed): s.backstep().forwardstep() == s for every score of the
\* Score invariant that is not a sentinel and meets backstep's precondition.
C12_ForwardUndoesBackAsClaimed ==
  (last.op = "backstep" /\ ScoreInvariant(last.x) /\ ~Sentinel(last.x)) =>
    forwardstep(last.out) = last.x

\* C12 (amended): the same, for scores whose tie depth is not
\* MAX_TIE_DEPTH - 1.
C12_ForwardUndoesBack ==
  (/\ last.op = "backstep"
   /\ ScoreInvariant(last.x)
   /\ ~Sentinel(last.x)
   /\ turn_count_tie(last.x) # MAX_TIE_DEPTH - 1) =>
    forwardstep(last.out) = last.x

C12_Witness ==
  /\ last.op = "backstep"
  /\ ~Sentinel(last.x)
  /\ ~is_tie(last.x)
  /\ turn_count_tie(last.x) > 0
  /\ cur_player_wins(last.x)

\* C13 (as claimed): s.forwardstep().backstep() == s for every non-sentinel
\* score of the Score invariant whose tie and win depths are below their
\* maximum representable values.
C13_BackUndoesForwardAsClaimed ==
  (/\ last.op = "forwardstep"
   /\ ScoreInvariant(last.x)
   /\ ~Sentinel(last.x)
   /\ turn_count_tie(last.x) < MAX_TIE_DEPTH
   /\ (is_tie(last.x) \/ turn_count_win(last.x) < MAX_WIN_DEPTH)) =>
    backstep(last.out) = last.x

\* C13 (amended): the same, for scores whose tie depth is at least 1.
C13_BackUndoesForward ==
  (/\ last.op = "forwardstep"
   /\ ScoreInvariant(last.x)
   /\ ~Sentinel(last.x)
   /\ turn_count_tie(last.x) < MAX_TIE_DEPTH
   /\ (is_tie(last.x) \/ turn_count_win(last.x) < MAX_WIN_DEPTH)
   /\ turn_count_tie(last.x) >= 1) =>
    /\ backstep_assert(last.out)
    /\ backstep(last.out) = last.x

C13_Witness ==
  /\ last.op = "forwardstep"
  /\ ~Sentinel(last.x)
  /\ ~is_tie(last.x)
  /\ turn_count_tie(last.x) >= 1
  /\ turn_count_win(last.x) < MAX_WIN_DEPTH
  /\ ~cur_player_wins(last.x)

\* C14: backstep flips the winner and adds one to the decided depth iff the
\* score is decided (a tie-only score stays tie-only with the flag clear),
\* adds one to the tie depth unless the score is a guaranteed tie, and carries
\* nothing into another field.
C14_BackstepFields ==
  /\ backstep(win(1)) = optimal_lose(2)
  /\ backstep(lose(1)) = optimal_win(2)
  /\ backstep(NO_INFO) = tie(1)
  /\ backstep(guaranteed_tie) = guaranteed_tie
  /\ last.op = "backstep" =>
       /\ is_tie(last.out) = is_tie(last.x)
       /\ ~is_tie(last.x) =>
            /\ cur_player_wins(last.out) = ~cur_player_wins(last.x)
            /\ turn_count_win(last.out) = turn_count_win(last.x) + 1
       /\ is_tie(last.x) => ~cur_player_wins(last.out)
       /\ turn_count_tie(last.out) =
            (IF is_guaranteed_tie(last.x) THEN turn_count_tie(last.x)
             ELSE turn_count_tie(last.x) + 1)
       /\ UnusedClear(last.out)

C14_Witness ==
  /\ last.op = "backstep"
  /\ ~is_tie(last.x)
  /\ turn_count_win(last.out) = MAX_WIN_DEPTH
  /\ turn_count_tie(last.out) > 1

\* C15: forwardstep flips the winner iff the score is decided, lowers a
\* decided depth of at least 2 by one and leaves a decided depth of 1, lowers
\* the tie depth by one unless it is 0 or the score is a guaranteed tie.
C15_ForwardstepFields ==
  /\ forwardstep(win(1)) = lose(1)
  /\ forwardstep(win(2)) = lose(1)
  /\ forwardstep(NO_INFO) = NO_INFO
  /\ forwardstep(tie(1)) = NO_INFO
  /\ forwardstep(guaranteed_tie) = guaranteed_tie
  /\ (last.op = "forwardstep" /\ ScoreInvariant(last.x)) =>
       /\ is_tie(last.out) = is_tie(last.x)
       /\ cur_player_wins(last.out) =
            (IF is_tie(last.x) THEN cur_player_wins(last.x)
             ELSE ~cur_player_wins(last.x))
       /\ ~is_tie(last.x) =>
            turn_count_win(last.out) =
              (IF turn_count_win(last.x) >= 2 THEN turn_count_win(last.x) - 1
               ELSE turn_count_win(last.x))
       /\ turn_count_tie(last.out) =
            (IF turn_count_tie(last.x) = 0 \/ is_guaranteed_tie(last.x)
             THEN turn_count_tie(last.x)
             ELSE turn_count_tie(last.x) - 1)
       /\ UnusedClear(last.out)

C15_Witness ==
  /\ last.op = "forwardstep"
  /\ ~is_tie(last.x)
  /\ turn_count_win(last.x) = 1
  /\ ~cur_player_wins(last.x)

\* C16 (as claimed): for every score of the Score invariant and every u32
\* search depth d, determined(d) holds iff d <= turn_count_tie or the score is
\* decided and d >= turn_count_win.
C16_DeterminedIff ==
  (last.op = "determined" /\ ScoreInvariant(last.x)) =>
    last.out =
      (\/ last.d <= turn_count_tie(last.x)
       \/ (~is_tie(last.x) /\ last.d >= turn_count_win(last.x)))

\* C17 (as claimed): at every depth d for which determined(d) holds,
\* score_at_depth(d) completes with Tie when d <= turn_count_tie, with
\* CurrentPlayerWins when the score is decided for the current player and
\* d >= turn_count_win, with OtherPlayerWins when it is decided for the
\* opponent and d >= turn_count_win.
C17_ScoreAtDepth ==
  (last.op = "score_at_depth" /\ ScoreInvariant(last.x)) =>
    /\ last.out \in ScoreValues
    /\ (last.out = "Tie") = (last.d <= turn_count_tie(last.x))
    /\ (last.out = "CurrentPlayerWins") =
         (/\ ~is_tie(last.x)
          /\ cur_player_wins(last.x)
          /\ last.d >= turn_count_win(last.x))
    /\ (last.out = "OtherPlayerWins") =
         (/\ ~is_tie(last.x)
          /\ ~cur_player_wins(last.x)
          /\ last.d >= turn_count_win(last.x))

\* C18: from_score returns nothing for no_info, the guaranteed-tie report for
\* a guaranteed tie, tie(n) for a tie-only score of finite tie depth n >= 1,
\* win(n) for optimal_win(n), lose(n) for optimal_lose(n), and nothing for a
\* decided score whose tie depth is below its win depth minus one.
C18_FromScore ==
  /\ from_score(optimal_win(4), debug_assertions) = Some(ds_win(4))
  /\ (last.op = "from_score" /\ ScoreInvariant(last.x)) =>
       /\ has_no_info(last.x) => last.out = None
       /\ is_guaranteed_tie(last.x) => last.out = Some(ds_guaranteed_tie)
       /\ (is_tie(last.x) /\ ~is_guaranteed_tie(last.x) /\ ~has_no_info(last.x)) =>
            last.out = Some(ds_tie(turn_count_tie(last.x)))
       /\ (~is_tie(last.x) /\ turn_count_tie(last.x) + 1 = turn_count_win(last.x)) =>
            last.out = Some(IF cur_player_wins(last.x)
                            THEN ds_win(turn_count_win(last.x))
                            ELSE ds_lose(turn_count_win(last.x)))
       /\ (~is_tie(last.x) /\ turn_count_tie(last.x) + 1 < turn_count_win(last.x)) =>
            last.out = None

C18_Witness ==
  /\ last.op = "from_score"
  /\ ~is_tie(last.x)
  /\ turn_count_win(last.x) >= 2
  /\ last.out = Some(ds_lose(turn_count_win(last.x)))

\* C19 (as claimed): r.truncated(d) is a win or loss report of distance at
\* most d, or a depth-bounded tie report of bound at most d that is not equal
\* to the guaranteed-tie report.
C19_TruncatedWithinDepth ==
  last.op = "truncated" =>
    \/ /\ last.out.v.value # "Tie"
       /\ last.out.v.moves_to_win <= last.d
    \/ /\ last.out.v.value = "Tie"
       /\ last.out.v.moves_to_win <= last.d
       /\ last.out.v # ds_guaranteed_tie

\* C20: truncated(d) returns a win or loss of distance <= d unchanged, turns a
\* win or loss of distance > d into tie(d), a depth-bounded tie(n) into
\* tie(min(n, d)) and the guaranteed-tie report into tie(d).
C20_TruncatedCases ==
  last.op = "truncated" =>
    /\ (last.r.value # "Tie" /\ last.r.moves_to_win <= last.d) =>
         last.out = Some(last.r)
    /\ (last.r.value # "Tie" /\ last.r.moves_to_win > last.d) =>
         last.out = Some(ds_tie(last.d))
    /\ (last.r.value = "Tie" /\ last.r.moves_to_win # 0) =>
         last.out = Some(ds_tie(Min(last.r.moves_to_win, last.d)))
    /\ last.r = ds_guaranteed_tie => last.out = Some(ds_tie(last.d))

C20_Witness ==
  /\ last.op = "truncated"
  /\ last.r.value = "OtherPlayerWins"
  /\ last.r.moves_to_win = last.d
  /\ last.d > 0
  /\ last.out = Some(last.r)

\* C21: break_early sets the tie depth to 0 and leaves the winner flag and the
\* decided depth unchanged: optimal_win(n) becomes win(n), optimal_lose(n)
\* becomes lose(n), every tie-only score becomes no_info, and a second
\* break_early changes nothing.
C21_BreakEarly ==
  /\ \A n \in WinArgs :
       /\ break_early(optimal_win(n)) = win(n)
       /\ break_early(optimal_lose(n)) = lose(n)
  /\ break_early(guaranteed_tie) = NO_INFO
  /\ last.op = "break_early" =>
       /\ turn_count_tie(last.out) = 0
       /\ cur_player_wins(last.out) = cur_player_wins(last.x)
       /\ is_tie(last.out) = is_tie(last.x)
       /\ ~is_tie(last.x) => turn_count_win(last.out) = turn_count_win(last.x)
       /\ is_tie(last.x) => last.out = NO_INFO
       /\ break_early(last.out) = last.out

C21_Witness ==
  /\ last.op = "break_early"
  /\ ~is_tie(last.x)
  /\ ~cur_player_wins(last.x)
  /\ turn_count_tie(last.x) > 1
  /\ last.out = lose(turn_count_win(last.x))

\* C27: backstep preserves compatibility and distributes over merge: for
\* compatible scores a and b of the Score invariant that meet backstep's
\* precondition, a.backstep() is compatible with b.backstep() and
\* a.merge(b).backstep() == a.backstep().merge(b.backstep()).
C27_BackstepOverMerge ==
  (/\ last.op = "merge"
   /\ ScoreInvariant(last.x)
   /\ ScoreInvariant(last.y)
   /\ backstep_assert(last.x)
   /\ backstep_assert(last.y)) =>
    /\ backstep_assert(last.out)
    /\ compatible(backstep(last.x), backstep(last.y))
    /\ backstep(last.out) = merge(backstep(last.x), backstep(last.y))

C27_Witness ==
  /\ last.op = "merge"
  /\ backstep_assert(last.x)
  /\ backstep_assert(last.y)
  /\ ~is_tie(last.x)
  /\ ~is_tie(last.y)
  /\ turn_count_tie(last.x) > turn_count_tie(last.y)
  /\ turn_count_win(last.x) > turn_count_win(last.y)
  /\ last.out # last.x
  /\ last.out # last.y

\* C26: merge is closed and associative over pairwise-compatible scores: for
\* scores a, b, c of the Score invariant that are pairwise compatible,
\* a.merge(b) is compatible with c and a.merge(b).merge(c) equals
\* a.merge(b.merge(c)).
C26_MergeAssociative ==
  last.op = "merge" =>
    \A k \in DOMAIN score :
      (/\ ScoreInvariant(last.x)
       /\ ScoreInvariant(last.y)
       /\ ScoreInvariant(score[k])
       /\ compatible(last.x, score[k])
       /\ compatible(last.y, score[k])) =>
        /\ compatible(last.out, score[k])
        /\ merge(last.out, score[k]) = merge(last.x, merge(last.y, score[k]))

C26_Witness ==
  /\ last.op = "merge"
  /\ \E k \in DOMAIN score :
       /\ compatible(last.x, score[k])
       /\ compatible(last.y, score[k])
       /\ score[k] \notin {last.x, last.y, last.out}
       /\ last.out \notin {last.x, last.y}
       /\ merge(last.out, score[k]) \notin {last.out, score[k]}
       /\ ~is_tie(merge(last.out, score[k]))

\* C22: Game::with_move is pure: g.with_move(m) returns the state obtained by
\* applying make_move(m) to a copy and leaves g (sticks, player to move, move
\* enumeration, finished status) unchanged, and a later make_move on the
\* returned state changes no other game.
C22_WithMovePure ==
  [][/\ last'.op = "with_move" =>
          /\ heap'[last'.self] = heap[last'.self]
          /\ each_move(heap'[last'.self]) = each_move(heap[last'.self])
          /\ finished(heap'[last'.self]) = finished(heap[last'.self])
          /\ current_player(heap'[last'.self]) = current_player(heap[last'.self])
          /\ heap'[last'.out] = make_move(heap[last'.self], last'.m)
          /\ \A h \in Objs \ {last'.out} : heap'[h] = heap[h]
     /\ last'.op = "make_move" =>
          \A h \in Objs \ {last'.self} : heap'[h] = heap[h]]_vars

C22_Witness ==
  /\ last.op = "make_move"
  /\ last.self = 2
  /\ heap[1] = Nim_new(MaxSticks)
  /\ heap[2].sticks < MaxSticks - MAX_STICKS_PER_TURN

\* The items playout has yielded so far.
Chain == playout.yielded

\* C23: with a solver whose best_move returns a move iff the game is
\* unfinished, playout yields a chain in which the first state is
\* game.with_move(move) and every later state is the state yielded before it
\* with its move applied; nothing is yielded after a state whose finished() is
\* Win or Tie; the sequence is empty exactly when the game is finished.
C23_PlayoutChain ==
  playout # Idle =>
    /\ Len(Chain) >= 1 =>
         Chain[1].game = with_move(playout.game, Chain[1].m).out
    /\ \A k \in 2 .. Len(Chain) :
         /\ Chain[k].game = with_move(Chain[k - 1].game, Chain[k].m).out
         /\ finished(Chain[k - 1].game).tag \notin {"Win", "Tie"}
    /\ (playout.next # None /\ Len(Chain) >= 1) =>
         finished(Chain[Len(Chain)].game).tag \notin {"Win", "Tie"}
    /\ playout.done =>
         ((Chain = <<>>) = is_finished(finished(playout.game)))

C23_Witness ==
  /\ playout # Idle
  /\ playout.done
  /\ Len(Chain) >= 3
  /\ is_finished(finished(Chain[Len(Chain)].game))

C25_PlayChangesGameOnlyByDone ==
  [][/\ term'.game # term.game =>
          /\ last'.op = "play_clear"
          /\ term.pending # None
          /\ term.pending.v.tag = "Done"
          /\ term.prev.v.answer = term.pending.v
          /\ term.prev.v.by = current_player(term.game)
          /\ term.prev.v.game = term.game
          /\ term'.game = make_move(term.game, term.pending.v.m)
     /\ (/\ last'.op = "player_move"
         /\ term.prev # None
         /\ term.prev.v.answer \in {Continue, MalformedMove, InternalError}) =>
          /\ term.prev.v.game = term.game
          /\ term.prev.v.by = last'.by
     /\ (last'.op = "player_move" /\ last'.answer \in {Quit, IoError}) =>
          /\ term'.pc = "done"
          /\ term'.result = last'.answer
          /\ term'.game = term.game
     /\ (last'.op = "player_move"
         /\ last'.answer \in {Continue, MalformedMove, InternalError}) =>
          term'.game = term.game
     /\ term'.pc = "announce" => finished(term'.game).tag \in {"Win", "Tie"}
     /\ term'.result # Unreachable]_vars

C25_Witness ==
  /\ term # Idle
  /\ term.pc = "done"
  /\ term.result = Ok
  /\ term.prev # None
  /\ term.prev.v.answer.tag = "Done"
  /\ term.game = make_move(term.prev.v.game, term.prev.v.answer.m)
  /\ finished(term.game) = Win(term.prev.v.by)

====
